---- MODULE Spec2Model ----
(***************************************************************************)
(* State-machine model of a2-task.cpp: the OpenMP task version of the      *)
(* Mandelbrot renderer followed by the iterated 2D convolution.            *)
(*                                                                         *)
(* main() runs one fractal dispatch (parallel / single / task), sums the   *)
(* per-task counts, and calls convolution_2d, which runs nsteps passes,    *)
(* each one a dispatch of tasks followed by the implicit barrier of the    *)
(* parallel region and, between passes, the three-assignment buffer swap.  *)
(*                                                                         *)
(* Granularity: one step of a task is one iteration of its outermost loop  *)
(* (one image column).  Every step records the cells it reads and writes,  *)
(* so that the absence of conflicting accesses between sibling tasks is    *)
(* checked on the model and not assumed by it.                             *)
(*                                                                         *)
(* Arithmetic: complex<double> values are modelled in fixed point with     *)
(* Scale units per 1.0; kernel weights are rationals w/den.                *)
(***************************************************************************)
EXTENDS Integers, Sequences, FiniteSets, TLC

(* ------------------------------ bounds --------------------------------- *)
\* image size (1536 x 1024 in main), scaled down
Width == 4
Height == 3
\* largest task count tried for a dispatch (512 and 256 in the source)
MaxTasks == 3
\* largest number of convolution passes (20 in main)
MaxSteps == 2
\* largest kernel width (5 in main)
MaxKernelWidth == 3

(* ------------------------- program constants --------------------------- *)
channels == 3
max_iterations == 2048
num_threads == 16
\* fixed-point unit for the doubles of the escape kernel
Scale == 2^10

(* ------------------------------- Image --------------------------------- *)
Channels == 0..(channels - 1)
Rows == 0..(Height - 1)
Cols == 0..(Width - 1)
\* a cell is (channel, row, col), the argument order of Image::operator()
Cells == Channels \X Rows \X Cols
\* Image(channels, height, width): zero-initialised buffer
ZeroImage == [c \in Cells |-> 0]
\* the two Image objects of main; convolution_2d binds src and dst to them
src == "image"
dst == "filtered_image"
Access(buf, ch, row, col) == [buf |-> buf, cell |-> <<ch, row, col>>]

\* the sum of f over S, one element taken off at a time
Sum(f, S) ==
    LET Part[T \in SUBSET S] ==
            IF T = {} THEN 0
            ELSE LET x == CHOOSE y \in T : TRUE IN f[x] + Part[T \ {x}]
    IN Part[S]

(* --------------------------- gradients -------------------------------- *)
\* the four colour stops; t0 and t1 in thousandths
gradients == <<
    [c0 |-> <<0, 0, 0>>,       c1 |-> <<76, 57, 125>>,   t0 |-> 0,  t1 |-> 10],
    [c0 |-> <<76, 57, 125>>,   c1 |-> <<255, 255, 255>>, t0 |-> 10, t1 |-> 20],
    [c0 |-> <<255, 255, 255>>, c1 |-> <<0, 0, 0>>,       t0 |-> 20, t1 |-> 50],
    [c0 |-> <<0, 0, 0>>,       c1 |-> <<0, 0, 0>>,       t0 |-> 50, t1 |-> 1000] >>

\* colorize(pixel, q, iteration, gradients): q is given as qn / max_iterations.
\* A point that used the whole budget gets the terminal colour; otherwise the
\* stop containing q is interpolated linearly.  Every channel of pixel is
\* overwritten, whatever it held before.
colorize(pixel, qn, iteration) ==
    IF iteration >= max_iterations THEN gradients[4].c1
    ELSE LET hit == {n \in 1..4 : /\ qn * 1000 >= gradients[n].t0 * max_iterations
                                  /\ qn * 1000 <  gradients[n].t1 * max_iterations}
             n == IF hit = {} THEN (IF qn <= 0 THEN 1 ELSE 4)
                  ELSE CHOOSE m \in hit : TRUE
             g == gradients[n]
             num == qn * 1000 - g.t0 * max_iterations
             den == (g.t1 - g.t0) * max_iterations
             mix(a, b) == LET v == a + ((b - a) * num) \div den
                          IN IF v > 255 THEN 255 ELSE IF v < 0 THEN 0 ELSE v
         IN [ch \in 1..3 |-> mix(g.c0[ch], g.c1[ch])]

(* ------------------------- mandelbrot_kernel --------------------------- *)
\* loop state s = <<re(z), im(z), iteration>>
\* the squared length is compared with 4: while (norm(z) <= 4 && ...)
LoopCond_Norm(s) ==
    /\ s[1] * s[1] + s[2] * s[2] <= 4 * Scale * Scale
    /\ s[3] < max_iterations

\* the iteration budget is not tested
LoopCond_NoBudget(s) ==
    s[1] * s[1] + s[2] * s[2] <= (4 * Scale) * (4 * Scale)

\* while (abs(z) <= 4 && (iteration < max_iterations))
LoopCond(s) ==
    /\ s[1] * s[1] + s[2] * s[2] <= (4 * Scale) * (4 * Scale)
    /\ s[3] < max_iterations

\* z = z * z + c; iteration++;
LoopBody(s, cr, ci) ==
    << ((s[1] * s[1] - s[2] * s[2]) \div Scale) + cr,
       ((2 * s[1] * s[2]) \div Scale) + ci,
       s[3] + 1 >>

\* at most n iterations of the while loop from state s (the loop itself never
\* makes more than max_iterations); halving keeps the evaluation shallow
RECURSIVE WhileLoop(_, _, _, _)
WhileLoop(s, cr, ci, n) ==
    IF ~LoopCond(s) THEN s
    ELSE IF n = 1 THEN LoopBody(s, cr, ci)
    ELSE WhileLoop(WhileLoop(s, cr, ci, n \div 2), cr, ci, n - (n \div 2))

\* iteration + 1 - log(log(length)) / log(2.0), with the logarithm term
\* rounded down to an integer: log2(ln|z|) is in [0,1) for 4 < |z| < e^2 and
\* in [1,2) for e^2 <= |z| < e^4 (|z|^2 = 54.598 at |z| = e^2)
SmoothIndex(s) ==
    LET len2 == s[1] * s[1] + s[2] * s[2]
    IN s[3] + 1 - (IF len2 >= ((54598 * Scale) \div 1000) * Scale THEN 1 ELSE 0)

\* the part of mandelbrot_kernel after the loop, from the loop's final state
\* s:  colorize(pixel, q, iteration, gradients);
\*     return (iteration < max_iterations);
AfterLoop(s, pixel) ==
    [ret       |-> s[3] < max_iterations,
     pixel     |-> colorize(pixel, SmoothIndex(s), s[3]),
     iteration |-> s[3],
     z         |-> <<s[1], s[2]>>]

\* bool mandelbrot_kernel(complex<double> c, vector<int> &pixel)
mandelbrot_kernel(cr, ci, pixel) ==
    AfterLoop(WhileLoop(<<0, 0, 0>>, cr, ci, max_iterations), pixel)

(* ------------------------------ tiling --------------------------------- *)
\* int w_size = w/task_size;
w_size(task_size) == Width \div task_size

\* every task starts its loop at column 0 (the start offset is forgotten)
TileFirst_NoOffset(task_num, task_size) == 0 * w_size(task_size)

\* for (j = task_num * w_size; ...
TileFirst(task_num, task_size) == task_num * w_size(task_size)

\* the loop bound stops one column early
TileEnd_Short(task_num, task_size) == (task_num + 1) * w_size(task_size) - 1

\* the last task also takes the columns left over by the division
TileEnd_Remainder(task_num, task_size) ==
    IF task_num = task_size - 1 THEN Width ELSE (task_num + 1) * w_size(task_size)

\* ...; j < (task_num+1) * w_size; j++)
TileEnd(task_num, task_size) == (task_num + 1) * w_size(task_size)

TileCols(task_num, task_size) ==
    {j \in Cols : TileFirst(task_num, task_size) <= j /\ j < TileEnd(task_num, task_size)}

\* the value a read access sees and the effect of a set of write accesses;
\* W is a function from accesses to the values stored
Load(m, a) == m[a.buf][a.cell]
Store(m, W) ==
    [b \in DOMAIN m |->
        [c \in Cells |-> IF [buf |-> b, cell |-> c] \in DOMAIN W
                         THEN W[[buf |-> b, cell |-> c]] ELSE m[b][c]]]

(* ----------------------------- mandelbrot ------------------------------ *)
\* double ratio = width / (double)height;  (main)
ratio == (Width * Scale) \div Height

\* ratio /= 10.0;  double dx = (double)i / (w)*ratio - 1.10;
dx(i) == ((((i * Scale) \div Width) * (ratio \div 10)) \div Scale) - ((110 * Scale) \div 100)

\* double dy = (double)j / (h)*0.1 - 0.35;
dy(j) == ((((j * Scale) \div Height) * (Scale \div 10)) \div Scale) - ((35 * Scale) \div 100)

\* the final state of the escape loop for the point of pixel (column i,
\* row j), computed once per pixel
LoopAt == [i \in Cols, j \in Rows |-> WhileLoop(<<0, 0, 0>>, dx(i), dy(j), max_iterations)]

\* mandelbrot_kernel(c, pixel) for c = (dx, dy) of pixel (column i, row j)
KernelAt(i, j, pixel) == AfterLoop(LoopAt[i, j], pixel)

\* image(ch, j, i) = pixel[ch];
MandelbrotWrite(ch, j, i) == Access(src, ch, j, i)

\* the loop over j for column i, from row j on.  acc carries the writes made
\* so far (a function from accesses to values), the task's pixel vector and
\* its pixels_inside
RECURSIVE MandelbrotRows(_, _, _)
MandelbrotRows(acc, i, j) ==
    IF j < Height
    THEN LET r == KernelAt(i, j, acc.pixel)
         IN MandelbrotRows(
                [W |-> [a \in {MandelbrotWrite(ch, j, i) : ch \in Channels} |->
                           r.pixel[a.cell[1] + 1]] @@ acc.W,
                 pixel |-> r.pixel,
                 pixels_inside |-> IF r.ret THEN acc.pixels_inside + 1
                                   ELSE acc.pixels_inside],
                i, j + 1)
    ELSE acc

\* one iteration of the loop over i: all rows and channels of column i
MandelbrotColumn(i, pixel, inside) ==
    MandelbrotRows([W |-> << >>, pixel |-> pixel, pixels_inside |-> inside], i, 0)

(* --------------------------- convolution ------------------------------- *)
\* get_2d_kernel(width, height, sigma): a height x width matrix of weights
\* w[k, l] / den.  sigma selects the shape: "narrow" is the centre-only
\* kernel, "wide" the box kernel of equal weights summing to 1, "gain" a box
\* kernel summing to 3.
Sigmas == {"narrow", "wide", "gain"}
get_2d_kernel(width, height, sigma) ==
    [w   |-> [k \in 0..(height - 1), l \in 0..(width - 1) |->
                 CASE sigma = "narrow" ->
                          IF k = height \div 2 /\ l = width \div 2 THEN 1 ELSE 0
                   [] sigma = "wide" -> 1
                   [] OTHER -> 3],
     den |-> CASE sigma = "narrow" -> 1
               [] sigma = "wide" -> width * height
               [] OTHER -> width * height,
     size |-> height]

\* kernel[a][b]; an index outside the matrix is undefined behaviour and
\* yields an arbitrary weight jw
KernelWeight(kernel, a, b, jw) ==
    IF <<a, b>> \in DOMAIN kernel.w THEN kernel.w[a, b] ELSE jw

\* the left bound is tested with <=: column 0 is taken to be outside
Outside_ColumnZero(cy, cx) == cx <= 0 \/ cx > Width - 1 \/ cy < 0 \/ cy > Height - 1

\* if (cx < 0 || cx > w - 1 || cy < 0 || cy > h - 1) continue;
Outside(cy, cx) == cx < 0 \/ cx > Width - 1 \/ cy < 0 \/ cy > Height - 1

\* the neighbourhood is read from the buffer being written
ConvRead_FromDst(ch, cy, cx) == Access(dst, ch, cy, cx)

\* src_val = src(ch, cy, cx);
ConvRead(ch, cy, cx) == Access(src, ch, cy, cx)

\* row and column exchanged: dst(ch, j, i)
ConvWrite_Transposed(ch, i, j) == Access(dst, ch, j, i)

\* the result is stored back into the source buffer
ConvWrite_InPlace(ch, i, j) == Access(src, ch, i, j)

\* dst(ch, i, j) = ...
ConvWrite(ch, i, j) == Access(dst, ch, i, j)

Offsets(displ) == ((-displ)..displ) \X ((-displ)..displ)

\* the source cells read for destination cell (ch, i, j)
ConvReads(ch, i, j, displ) ==
    {ConvRead(ch, i + o[1], j + o[2]) : o \in {p \in Offsets(displ) : ~Outside(i + p[1], j + p[2])}}

\* val, as the numerator over kernel.den
ConvSum(m, kernel, ch, i, j, jw) ==
    LET displ == kernel.size \div 2
        term == [o \in Offsets(displ) |->
                    IF Outside(i + o[1], j + o[2]) THEN 0
                    ELSE KernelWeight(kernel, o[1] + displ, o[2] + displ, jw)
                         * Load(m, ConvRead(ch, i + o[1], j + o[2]))]
    IN Sum(term, Offsets(displ))

\* (int)(val > 255 ? 255 : (val < 0 ? 0 : val))
ClampTrunc(num, den) ==
    IF num > 255 * den THEN 255 ELSE IF num < 0 THEN 0 ELSE num \div den

\* the writes of one iteration of the loop over j: all channels and rows
ConvColumn(m, kernel, j, jw) ==
    [a \in {ConvWrite(ch, i, j) : ch \in Channels, i \in Rows} |->
        ClampTrunc(ConvSum(m, kernel, a.cell[1], a.cell[2], j, jw), kernel.den)]

ConvColumnReads(kernel, j) ==
    UNION {ConvReads(ch, i, j, kernel.size \div 2) : ch \in Channels, i \in Rows}

(* ------------------------------- state --------------------------------- *)
VARIABLES
    pc,                  \* position of the thread that runs main
    task_size,           \* task_size of main and of convolution_2d
    kernel_width, sigma, nsteps,  \* arguments of convolution_2d
    step,                \* loop variable of convolution_2d
    mem,                 \* contents of image and filtered_image
    tmp,                 \* Image tmp of the swap
    create_i,            \* loop variable i of the single construct
    task,                \* the tasks of the current parallel region
    pixels_inside_local, \* one slot per fractal task
    pixels_inside,       \* the total printed by main
    log,                 \* per task: the accesses made in this dispatch
    pre,                 \* mem when the current dispatch began
    conv_in,             \* mem when convolution_2d was entered
    junk,                \* what a read outside the kernel matrix yields
    swaps,               \* swaps completed in this call of convolution_2d
    created,             \* per index: tasks created with it in this dispatch
    slot_wr              \* per task: the slots of pixels_inside_local it stored to

vars == <<pc, task_size, kernel_width, sigma, nsteps, step, mem, tmp, create_i,
          task, pixels_inside_local, pixels_inside, log, pre, conv_in, junk,
                   swaps, created, slot_wr>>

TaskCounts == 1..MaxTasks
OddWidths == {k \in 1..MaxKernelWidth : k % 2 = 1}
AnyWidths == 1..MaxKernelWidth
\* weights an out-of-range read of the kernel matrix may produce
JunkWeights == {0, 1}

NoTask == [st |-> "none", kind |-> "none", col |-> 0, pixel |-> <<0, 0, 0>>,
           pixels_inside |-> 0, step |-> 0]
NoLog == [rd |-> {}, wr |-> {}]
Tasks == DOMAIN task

\* the task_size in force in the current parallel region
CurTaskSize == Cardinality(Tasks)

InFractal == pc = "main_single"
InConv == pc = "conv_single"

InitWith(widths) ==
    /\ pc = "main_single"
    /\ task_size \in [main : TaskCounts, convolution_2d : {0}]
    /\ kernel_width \in widths
    /\ sigma = "none"
    /\ nsteps = 0
    /\ step = 0
    /\ mem = [image |-> ZeroImage, filtered_image |-> ZeroImage]
    /\ tmp = ZeroImage
    /\ create_i = 0
    /\ task = [t \in 0..(task_size.main - 1) |-> NoTask]
    /\ pixels_inside_local = [t \in 0..(task_size.main - 1) |-> 0]
    /\ pixels_inside = 0
    /\ log = [t \in 0..(task_size.main - 1) |-> NoLog]
    /\ pre = mem
    /\ conv_in = mem
    /\ junk = 0
    /\ swaps = 0
    /\ created = [t \in 0..(task_size.main - 1) |-> 0]
    /\ slot_wr = [t \in 0..(task_size.main - 1) |-> << >>]

\* main up to the first parallel region, kernel width odd as documented
Init == InitWith(OddWidths)

\* the same with any kernel width
InitAnyWidth == InitWith(AnyWidths)

(* --------------------------- task creation ----------------------------- *)
\* i is read one iteration late: the task gets the index of the task before it
TaskNum_Stale == IF create_i > 0 THEN create_i - 1 ELSE 0

\* firstprivate(i): the task_num the new task is called with is the value of
\* the loop variable at its creation
TaskNum == create_i

\* #pragma omp task firstprivate(i, task_size, ...): the single thread creates
\* task i; it may start on any thread of the team from then on
CreateTask ==
    /\ pc \in {"main_single", "conv_single"}
    /\ create_i < CurTaskSize
    /\ created' = [created EXCEPT ![TaskNum] = @ + 1]
    /\ task' = [task EXCEPT ![TaskNum] =
                   [st |-> "ready",
                    kind |-> IF InFractal THEN "mandelbrot" ELSE "convolution_2d_helper",
                    col |-> 0, pixel |-> <<0, 0, 0>>, pixels_inside |-> 0,
                    step |-> step]]
    /\ create_i' = create_i + 1
    /\ UNCHANGED <<pc, task_size, kernel_width, sigma, nsteps, step, mem, tmp,
                   pixels_inside_local, pixels_inside, log, pre, conv_in, junk,
                   swaps, slot_wr>>

\* the creating thread leaves the region without waiting for the tasks
BarrierPassed_NoWait == create_i = Cardinality(DOMAIN task)

\* the implicit barrier that ends the parallel region: every task created in
\* the region has completed
BarrierPassed ==
    /\ create_i = CurTaskSize
    /\ \A t \in Tasks : task[t].st = "done"

Running == {t \in Tasks : task[t].st = "running"}

\* a thread of the team picks up a created task and enters the function
TaskStart(t) ==
    /\ task[t].st = "ready"
    /\ Cardinality(Running) < num_threads
    /\ task' = [task EXCEPT ![t].st = "running",
                            ![t].pixel = <<0, 0, 0>>,
                            ![t].pixels_inside = 0,
                            ![t].col = TileFirst(t, CurTaskSize)]
    /\ UNCHANGED <<pc, task_size, kernel_width, sigma, nsteps, step, mem, tmp,
                   create_i, pixels_inside_local, pixels_inside, log, pre, conv_in, junk,
                   swaps, created, slot_wr>>

(* ---------------------------- fractal task ----------------------------- *)
\* one iteration of the loop over i in mandelbrot
MandelbrotStep(t) ==
    /\ task[t].st = "running" /\ task[t].kind = "mandelbrot"
    /\ task[t].col < TileEnd(t, CurTaskSize)
    /\ \E r \in {MandelbrotColumn(task[t].col, task[t].pixel, task[t].pixels_inside)} :
          /\ mem' = Store(mem, r.W)
          /\ log' = [log EXCEPT ![t].wr = @ \cup DOMAIN r.W]
          /\ task' = [task EXCEPT ![t].col = @ + 1,
                                  ![t].pixel = r.pixel,
                                  ![t].pixels_inside = r.pixels_inside]
    /\ UNCHANGED <<pc, task_size, kernel_width, sigma, nsteps, step, tmp,
                   create_i, pixels_inside_local, pixels_inside, pre, conv_in, junk,
                   swaps, created, slot_wr>>

\* every task stores its count into the first slot
ResultSlot_First(t) == 0

\* pixels_inside_local[i] = ...: the slot task t stores its count into
ResultSlot(t) == t

\* return pixels_inside;  pixels_inside_local[i] = (mandelbrot(...));
MandelbrotReturn(t) ==
    /\ task[t].st = "running" /\ task[t].kind = "mandelbrot"
    /\ ~(task[t].col < TileEnd(t, CurTaskSize))
    /\ pixels_inside_local' =
           [pixels_inside_local EXCEPT ![ResultSlot(t)] = task[t].pixels_inside]
    /\ slot_wr' = [slot_wr EXCEPT ![t] = Append(@, ResultSlot(t))]
    /\ task' = [task EXCEPT ![t].st = "done"]
    /\ UNCHANGED <<pc, task_size, kernel_width, sigma, nsteps, step, mem, tmp,
                   create_i, pixels_inside, log, pre, conv_in, junk,
                   swaps, created>>

\* end of the fractal parallel region, then
\* pixels_inside = std::accumulate(pixels_inside_local.begin(), ..., 0);
MainJoin ==
    /\ pc = "main_single"
    /\ BarrierPassed
    /\ pc' = "main_accumulate"
    /\ UNCHANGED <<task_size, kernel_width, sigma, nsteps, step, mem, tmp, create_i,
                   task, pixels_inside_local, pixels_inside, log, pre, conv_in, junk,
                   swaps, created, slot_wr>>

\* the kernel each helper call computes for itself
Kernel == get_2d_kernel(kernel_width, kernel_width, sigma)

\* the index k + displ runs over 0 .. 2 * displ; it leaves the matrix exactly
\* when the matrix side is even.  What such a read yields is arbitrary; it is
\* taken to be the same weight throughout one call of convolution_2d.
JunkFor(width) ==
    IF 2 * (width \div 2) < width THEN {0} ELSE JunkWeights

\* std::accumulate, then the call convolution_2d(image, filtered_image, ...):
\* the arguments and the callee's task_size are drawn from the bounded sets
MainAccumulate ==
    /\ pc = "main_accumulate"
    /\ pixels_inside' = Sum(pixels_inside_local, DOMAIN pixels_inside_local)
    /\ \E ts \in TaskCounts : task_size' = [task_size EXCEPT !.convolution_2d = ts]
    /\ sigma' \in Sigmas
    /\ nsteps' \in 1..MaxSteps
    /\ step' = 0
    /\ conv_in' = mem
    /\ junk' \in JunkFor(kernel_width)
    /\ pc' = "conv_loop"
    /\ swaps' = 0
    /\ UNCHANGED <<kernel_width, mem, tmp, create_i, task, pixels_inside_local, log, pre,
                   created, slot_wr>>

(* --------------------------- convolution_2d ---------------------------- *)
\* for (...; step < nsteps; ...) taken: the parallel region of one pass opens
ConvPassBegin ==
    /\ pc = "conv_loop"
    /\ step < nsteps
    /\ pc' = "conv_single"
    /\ create_i' = 0
    /\ task' = [t \in 0..(task_size.convolution_2d - 1) |-> NoTask]
    /\ log' = [t \in 0..(task_size.convolution_2d - 1) |-> NoLog]
    /\ pre' = mem
    /\ created' = [t \in 0..(task_size.convolution_2d - 1) |-> 0]
    /\ UNCHANGED <<task_size, kernel_width, sigma, nsteps, step, mem, tmp,
                   pixels_inside_local, pixels_inside, conv_in, junk,
                   swaps, slot_wr>>

\* the loop condition fails: convolution_2d returns to main
ConvExit ==
    /\ pc = "conv_loop"
    /\ ~(step < nsteps)
    /\ pc' = "done"
    /\ UNCHANGED <<task_size, kernel_width, sigma, nsteps, step, mem, tmp, create_i,
                   task, pixels_inside_local, pixels_inside, log, pre, conv_in, junk,
                   swaps, created, slot_wr>>

\* one iteration of the loop over j in convolution_2d_helper
HelperStep(t) ==
    /\ task[t].st = "running" /\ task[t].kind = "convolution_2d_helper"
    /\ task[t].col < TileEnd(t, CurTaskSize)
    /\ \E W \in {ConvColumn(mem, Kernel, task[t].col, junk)} :
          /\ mem' = Store(mem, W)
          /\ log' = [log EXCEPT ![t].wr = @ \cup DOMAIN W,
                                ![t].rd = @ \cup ConvColumnReads(Kernel, task[t].col)]
    /\ task' = [task EXCEPT ![t].col = @ + 1]
    /\ UNCHANGED <<pc, task_size, kernel_width, sigma, nsteps, step, tmp, create_i,
                   pixels_inside_local, pixels_inside, pre, conv_in, junk,
                   swaps, created, slot_wr>>

\* the loop over j is finished: the helper returns and the task completes
HelperReturn(t) ==
    /\ task[t].st = "running" /\ task[t].kind = "convolution_2d_helper"
    /\ ~(task[t].col < TileEnd(t, CurTaskSize))
    /\ task' = [task EXCEPT ![t].st = "done"]
    /\ UNCHANGED <<pc, task_size, kernel_width, sigma, nsteps, step, mem, tmp, create_i,
                   pixels_inside_local, pixels_inside, log, pre, conv_in, junk,
                   swaps, created, slot_wr>>

\* the buffers are exchanged after every pass, the last one included
SwapCond_EveryPass == step < nsteps

\* if ( step < nsteps-1 )
SwapCond == step < nsteps - 1

\* end of the parallel region of a pass, then the test for the swap
ConvJoin ==
    /\ pc = "conv_single"
    /\ BarrierPassed
    /\ pc' = IF SwapCond THEN "swap_tmp" ELSE "conv_next"
    /\ UNCHANGED <<task_size, kernel_width, sigma, nsteps, step, mem, tmp, create_i,
                   task, pixels_inside_local, pixels_inside, log, pre, conv_in, junk,
                   swaps, created, slot_wr>>

\* Image tmp = src;
SwapTmp ==
    /\ pc = "swap_tmp"
    /\ tmp' = mem[src]
    /\ pc' = "swap_src"
    /\ UNCHANGED <<task_size, kernel_width, sigma, nsteps, step, mem, create_i,
                   task, pixels_inside_local, pixels_inside, log, pre, conv_in, junk,
                   swaps, created, slot_wr>>

\* the assignment to src has no effect on the caller's object
SwapSrc_Lost ==
    /\ pc = "swap_src"
    /\ pc' = "swap_dst"
    /\ UNCHANGED <<task_size, kernel_width, sigma, nsteps, step, mem, tmp, create_i,
                   task, pixels_inside_local, pixels_inside, log, pre, conv_in, junk,
                   swaps, created, slot_wr>>

\* src = dst;
SwapSrc ==
    /\ pc = "swap_src"
    /\ mem' = [mem EXCEPT ![src] = mem[dst]]
    /\ pc' = "swap_dst"
    /\ UNCHANGED <<task_size, kernel_width, sigma, nsteps, step, tmp, create_i,
                   task, pixels_inside_local, pixels_inside, log, pre, conv_in, junk,
                   swaps, created, slot_wr>>

\* tmp is a reference to src and not a copy, so it already holds dst's pixels
SwapDst_Alias ==
    /\ pc = "swap_dst"
    /\ mem' = [mem EXCEPT ![dst] = mem[src]]
    /\ pc' = "conv_next"
    /\ swaps' = swaps + 1
    /\ UNCHANGED <<task_size, kernel_width, sigma, nsteps, step, tmp, create_i,
                   task, pixels_inside_local, pixels_inside, log, pre, conv_in, junk,
                   created, slot_wr>>

\* dst = tmp;
SwapDst ==
    /\ pc = "swap_dst"
    /\ mem' = [mem EXCEPT ![dst] = tmp]
    /\ pc' = "conv_next"
    /\ swaps' = swaps + 1
    /\ UNCHANGED <<task_size, kernel_width, sigma, nsteps, step, tmp, create_i,
                   task, pixels_inside_local, pixels_inside, log, pre, conv_in, junk,
                   created, slot_wr>>

\* step++
NextStep ==
    /\ pc = "conv_next"
    /\ step' = step + 1
    /\ pc' = "conv_loop"
    /\ UNCHANGED <<task_size, kernel_width, sigma, nsteps, mem, tmp, create_i,
                   task, pixels_inside_local, pixels_inside, log, pre, conv_in, junk,
                   swaps, created, slot_wr>>

Next ==
    \/ CreateTask
    \/ \E t \in Tasks : TaskStart(t)
    \/ \E t \in Tasks : MandelbrotReturn(t)
    \/ MainJoin
    \/ MainAccumulate
    \/ ConvPassBegin
    \/ ConvExit
    \/ \E t \in Tasks : HelperReturn(t)
    \/ ConvJoin
    \/ SwapTmp
    \/ SwapSrc
    \/ SwapDst
    \/ NextStep
    \/ \E t \in Tasks : MandelbrotStep(t)
    \/ \E t \in Tasks : HelperStep(t)

Spec == Init /\ [][Next]_vars

SpecAnyWidth == InitAnyWidth /\ [][Next]_vars

\* the threads of the team keep running: the creating thread goes on while it
\* has a step to take and a created task is picked up and run to its end
FairSpec == Spec /\ WF_vars(Next)

(* ------------------- the functions run start to end -------------------- *)
\* mandelbrot(image, ratio, task_num, task_size) run without interruption
\* from column i on: the memory afterwards and the value returned
RECURSIVE MandelbrotLoop(_, _, _, _)
MandelbrotLoop(run, i, task_num, ts) ==
    IF i < TileEnd(task_num, ts)
    THEN LET r == MandelbrotColumn(i, run.pixel, run.pixels_inside)
         IN MandelbrotLoop([mem |-> Store(run.mem, r.W), pixel |-> r.pixel,
                            pixels_inside |-> r.pixels_inside],
                           i + 1, task_num, ts)
    ELSE run

mandelbrot(m, task_num, ts) ==
    MandelbrotLoop([mem |-> m, pixel |-> <<0, 0, 0>>, pixels_inside |-> 0],
                   TileFirst(task_num, ts), task_num, ts)

\* the fractal dispatch with its tasks run one after the other in index
\* order, from task t on: memory and the slots of pixels_inside_local
RECURSIVE FractalTasks(_, _, _)
FractalTasks(run, t, ts) ==
    IF t < ts
    THEN LET r == mandelbrot(run.mem, t, ts)
         IN FractalTasks([mem |-> r.mem,
                          local |-> [run.local EXCEPT ![t] = r.pixels_inside]],
                         t + 1, ts)
    ELSE run

FractalStage(ts) ==
    FractalTasks([mem |-> [image |-> ZeroImage, filtered_image |-> ZeroImage],
                  local |-> [t \in 0..(ts - 1) |-> 0]], 0, ts)

\* convolution_2d_helper(src, dst, kernel_width, sigma, nsteps, task_num,
\* task_size) run without interruption from column j on
RECURSIVE HelperLoop(_, _, _, _, _)
HelperLoop(m, kernel, j, task_num, ts) ==
    IF j < TileEnd(task_num, ts)
    THEN HelperLoop(Store(m, ConvColumn(m, kernel, j, 0)), kernel, j + 1, task_num, ts)
    ELSE m

convolution_2d_helper(m, kernel, task_num, ts) ==
    HelperLoop(m, kernel, TileFirst(task_num, ts), task_num, ts)

\* one pass: the helper calls of all tasks one after the other in index order
RECURSIVE PassTasks(_, _, _, _)
PassTasks(m, kernel, t, ts) ==
    IF t < ts THEN PassTasks(convolution_2d_helper(m, kernel, t, ts), kernel, t + 1, ts)
    ELSE m

\* the single-pass convolution: convolution_2d with nsteps = 1
SinglePass(m, kw, sg, ts) == PassTasks(m, get_2d_kernel(kw, kw, sg), 0, ts)

\* the roles of the two buffers exchanged
SwapBuffers(m) == [image |-> m.filtered_image, filtered_image |-> m.image]

\* the single pass applied k times, each pass reading what the one before
\* wrote and writing over what the one before read
RECURSIVE Passes(_, _, _, _, _)
Passes(m, k, kw, sg, ts) ==
    IF k <= 1 THEN SinglePass(m, kw, sg, ts)
    ELSE SinglePass(SwapBuffers(Passes(m, k - 1, kw, sg, ts)), kw, sg, ts)

(* ======================================================================= *)
(*                              properties                                 *)
(* ======================================================================= *)
SwapPcs == {"swap_tmp", "swap_src", "swap_dst"}
WrittenBy(t) == log[t].wr
ReadBy(t) == log[t].rd

\* C1: in every dispatch task t of T writes only cells whose column lies in
\* [t*floor(W/T), (t+1)*floor(W/T)), and no cell is written by two distinct
\* tasks of the same dispatch.
C1_TasksWriteDisjointSlices ==
    \A t1 \in Tasks :
        /\ \A a \in WrittenBy(t1) :
              /\ t1 * (Width \div CurTaskSize) <= a.cell[3]
              /\ a.cell[3] < (t1 + 1) * (Width \div CurTaskSize)
        /\ \A t2 \in Tasks \ {t1} : WrittenBy(t1) \cap WrittenBy(t2) = {}

\* two sibling tasks of a convolution pass are running and both have written
C1_Witness ==
    /\ InConv
    /\ \E t1, t2 \in Running : t1 # t2 /\ WrittenBy(t1) # {} /\ WrittenBy(t2) # {}

\* C2: the swap of pass k happens only after every task created for pass k
\* has completed, with no task running during any of its three assignments,
\* and every task that is created or running belongs to the pass the loop is
\* in (no task of pass k+1 exists before the swap has finished).
C2_SwapOnlyAfterJoin ==
    /\ pc \in SwapPcs =>
          /\ create_i = CurTaskSize
          /\ \A t \in Tasks : task[t].st = "done" /\ task[t].step = step
    /\ \A t \in Tasks :
          (task[t].kind = "convolution_2d_helper" /\ task[t].st \in {"ready", "running"}) =>
              /\ pc = "conv_single"
              /\ task[t].step = step

\* the middle assignment of a swap, after a pass of at least two tasks
C2_Witness ==
    /\ pc = "swap_src"
    /\ CurTaskSize >= 2
    /\ \E t \in Tasks : WrittenBy(t) # {}

\* C3: for nsteps = k >= 1 the image convolution_2d produces is the single
\* pass applied k times in sequence, and the source of every pass after the
\* first is the completely written destination of the pass before it.
C3_MultiPassIsIteratedSinglePass ==
    /\ pc = "done" =>
          mem[dst] = Passes(conv_in, nsteps, kernel_width, sigma,
                            task_size.convolution_2d)[dst]
    /\ (pc = "conv_single" /\ step >= 1) =>
          mem[src] = Passes(conv_in, step, kernel_width, sigma,
                            task_size.convolution_2d)[dst]

\* convolution_2d has returned from two passes of several tasks that
\* changed the picture
C3_Witness ==
    /\ pc = "done"
    /\ nsteps = 2
    /\ task_size.convolution_2d >= 2
    /\ sigma # "narrow"
    /\ mem[dst] # conv_in[src]
    /\ mem[dst] # mem[src]

\* C4: within a convolution pass every read of a helper task is a read of
\* the source buffer, every write goes to the destination buffer, no task
\* reads a cell a task of the pass writes, and the source buffer is not
\* changed while the pass is running.
C4_PassReadsSourceWritesDestination ==
    /\ \A t \in Tasks :
          task[t].kind = "convolution_2d_helper" =>
              /\ \A a \in ReadBy(t) : a.buf = "image"
              /\ \A a \in WrittenBy(t) : a.buf = "filtered_image"
              /\ \A t2 \in Tasks : ReadBy(t) \cap WrittenBy(t2) = {}
    /\ pc = "conv_single" => mem["image"] = pre["image"]

\* a running task has read a neighbour column that lies in the slice of a
\* sibling which is itself running and has already written
C4_Witness ==
    /\ InConv
    /\ \E t1, t2 \in Running :
          /\ t1 # t2
          /\ WrittenBy(t2) # {}
          /\ \E a \in ReadBy(t1) : a.cell[3] \in TileCols(t2, CurTaskSize)

\* C5: for fixed task counts the final contents of both images, every
\* per-task inside count and the total are the same in every execution: they
\* are the values obtained by running the tasks of each dispatch one after
\* the other.
C5_ResultIndependentOfSchedule ==
    pc = "done" =>
        LET f == FractalStage(task_size.main)
        IN /\ pixels_inside_local = f.local
           /\ pixels_inside = Sum(f.local, DOMAIN f.local)
           /\ mem = Passes(f.mem, nsteps, kernel_width, sigma,
                           task_size.convolution_2d)

\* the program has finished after dispatches of several tasks each
C5_Witness ==
    /\ pc = "done"
    /\ task_size.main >= 3
    /\ task_size.convolution_2d >= 3
    /\ nsteps = 2
    /\ sigma = "gain"
    /\ kernel_width = 3

\* C6: the fractal stage run with a task count N that divides the width
\* gives the same image and the same total inside count as with one task.
C6_TaskCountDoesNotChangeFractal ==
    (pc = "conv_loop" /\ step = 0 /\ Width % task_size.main = 0) =>
        LET one == FractalStage(1)
        IN /\ mem["image"] = one.mem["image"]
           /\ pixels_inside = Sum(one.local, DOMAIN one.local)

\* the fractal stage has finished with more than one task, N dividing W
C6_Witness ==
    /\ pc = "conv_loop" /\ step = 0
    /\ task_size.main > 1
    /\ Width % task_size.main = 0
    /\ pixels_inside > 0

\* the buffer the tasks of the current dispatch write
OutBuf == IF \E t \in Tasks : task[t].kind = "mandelbrot" THEN "image" ELSE "filtered_image"
Covered == CurTaskSize * (Width \div CurTaskSize)

\* C7: when W is not a multiple of T no task writes a column from
\* T*floor(W/T) on, in the fractal dispatch and in every convolution pass, and
\* through the join those columns of the output buffer keep the values they
\* had before the dispatch.
C7_TrailingColumnsUntouched ==
    Width % CurTaskSize # 0 =>
        /\ \A t \in Tasks : \A a \in WrittenBy(t) : a.cell[3] < Covered
        /\ pc \in {"main_single", "main_accumulate", "conv_single", "swap_tmp"} =>
              \A c \in Cells : c[3] >= Covered => mem[OutBuf][c] = pre[OutBuf][c]

\* all tasks of a convolution pass are done, W is not a multiple of T, the
\* covered columns were written and a trailing cell holds an old non-zero value
C7_Witness ==
    /\ InConv /\ BarrierPassed
    /\ Width % CurTaskSize # 0
    /\ \E t \in Tasks : WrittenBy(t) # {}
    /\ \E c \in Cells : c[3] >= Covered /\ mem["filtered_image"][c] # 0

AllWritten == UNION {WrittenBy(t) : t \in Tasks}

\* C8: in each pass of convolution_2d every cell (channel, row, col) of the
\* destination image is written during that pass, for every image size.
C8_EveryCellWrittenEachPass ==
    (InConv /\ BarrierPassed) =>
        AllWritten = {[buf |-> "filtered_image", cell |-> c] : c \in Cells}

ConvPcs == {"conv_loop", "conv_single", "swap_tmp", "swap_src", "swap_dst",
            "conv_next", "done"}

\* C9: a call of convolution_2d with an even kernel_width is rejected at
\* entry: no task is dispatched for it and no cell of either image is written.
C9_EvenKernelWidthRejected ==
    (kernel_width % 2 = 0 /\ pc \in ConvPcs) =>
        /\ \A t \in Tasks : task[t].kind # "convolution_2d_helper"
        /\ mem = conv_in

\* the point of pixel (column i, row j) is a set member: the iteration budget
\* was used up and z has not escaped
IsMember(i, j) ==
    /\ LoopAt[i, j][3] = max_iterations
    /\ LoopAt[i, j][1] * LoopAt[i, j][1] + LoopAt[i, j][2] * LoopAt[i, j][2]
          <= (4 * Scale) * (4 * Scale)

CoveredCols(ts) == UNION {TileCols(t, ts) : t \in 0..(ts - 1)}

\* C10: mandelbrot_kernel returns true exactly for set members, and the total
\* of the fractal stage is the number of covered pixels that are set members.
C10_CountIsNumberOfMembers ==
    (pc = "conv_loop" /\ step = 0) =>
        /\ \A p \in CoveredCols(task_size.main) \X Rows :
              KernelAt(p[1], p[2], <<0, 0, 0>>).ret = IsMember(p[1], p[2])
        /\ pixels_inside =
              Cardinality({p \in CoveredCols(task_size.main) \X Rows : IsMember(p[1], p[2])})

\* C11: when convolution_2d returns (nsteps >= 1) the output of the last pass
\* is in the buffer the tasks of that pass wrote, which is the caller's dst
\* (filtered_image) whether nsteps is odd or even; exactly nsteps - 1 swaps
\* have been made, and no swap is begun after the last pass.
C11_ResultInCallersDst ==
    /\ pc = "done" =>
          /\ \A t \in Tasks : \A a \in WrittenBy(t) : a.buf = "filtered_image"
          /\ mem["filtered_image"] =
                 SinglePass(pre, kernel_width, sigma, task_size.convolution_2d)["filtered_image"]
          /\ swaps = nsteps - 1
    /\ pc \in SwapPcs => step < nsteps - 1
    /\ pc \in {"conv_loop", "conv_single"} \cup SwapPcs =>
          swaps = IF step < nsteps THEN step ELSE nsteps - 1

\* convolution_2d has returned from an even number of passes with one swap
\* made, and the last pass changed the destination
C11_Witness ==
    /\ pc = "done"
    /\ nsteps = 2
    /\ swaps = 1
    /\ mem["filtered_image"] # pre["filtered_image"]

\* the sample of the source image at (ch, y, x), and 0 outside the image
Padded(m, ch, y, x) ==
    IF y >= 0 /\ y < Height /\ x >= 0 /\ x < Width THEN m["image"][<<ch, y, x>>] ELSE 0

\* kernel weight times padded sample, summed over the whole neighbourhood of
\* side K.size centred on (i, j); the numerator over K.den
Weighted(m, K, ch, i, j) ==
    LET side == 0..(K.size - 1)
        r == K.size \div 2
    IN Sum([o \in side \X side |->
               K.w[o[1], o[2]] * Padded(m, ch, i + o[1] - r, j + o[2] - r)],
           side \X side)

\* num/den brought into [0, 255], then the fraction dropped
Clamped(num, den) ==
    LET lo == IF num < 0 THEN 0 ELSE num
        hi == IF lo > 255 * den THEN 255 * den ELSE lo
    IN hi \div den

\* K is the 3x3 kernel of equal weights 1/9
NinthKernel(K) ==
    K.size = 3 /\ K.den = 9 /\ \A o \in DOMAIN K.w : K.w[o] = 1

\* one pass of ts tasks with kernel K over the uniform image of 255
UniformPass(K, ts) ==
    PassTasks([image |-> [c \in Cells |-> 255], filtered_image |-> ZeroImage],
              K, 0, ts)["filtered_image"]

\* C12: every destination cell written in a pass holds the sum, over the
\* kernel_width x kernel_width neighbourhood centred on it, of kernel weight
\* times source sample, neighbours outside the image counting 0, clamped to
\* [0, 255] and truncated; and with the 3x3 kernel of weights 1/9 the pass
\* applied to the uniform image of 255 leaves 255 in the interior cells it
\* writes and 255*4/9 truncated in the corner cells it writes.
C12_StoredValueIsClampedWeightedSum ==
    (InConv /\ BarrierPassed) =>
        /\ \A t \in Tasks : \A a \in WrittenBy(t) :
              mem[a.buf][a.cell] =
                  Clamped(Weighted(pre, Kernel, a.cell[1], a.cell[2], a.cell[3]), Kernel.den)
        /\ NinthKernel(Kernel) =>
              LET out == UniformPass(Kernel, CurTaskSize)
              IN \A c \in {d \in Cells : d[3] < Covered} :
                    /\ (c[2] \in 1..(Height - 2) /\ c[3] \in 1..(Width - 2)) => out[c] = 255
                    /\ (c[2] \in {0, Height - 1} /\ c[3] \in {0, Width - 1}) =>
                           out[c] = (255 * 4) \div 9

\* a pass with a 3x3 kernel has ended; it wrote a border cell, a cell whose
\* sum was clamped at 255 and a cell whose sum had a fraction to drop
C12_Witness ==
    /\ InConv /\ BarrierPassed /\ kernel_width = 3
    /\ \E t \in Tasks : \E a \in WrittenBy(t) :
          a.cell[3] = 0 /\ mem[a.buf][a.cell] # 0
    /\ \E t \in Tasks : \E a \in WrittenBy(t) :
          Weighted(pre, Kernel, a.cell[1], a.cell[2], a.cell[3]) > 255 * Kernel.den
    /\ \E t \in Tasks : \E a \in WrittenBy(t) :
          /\ Weighted(pre, Kernel, a.cell[1], a.cell[2], a.cell[3]) < 255 * Kernel.den
          /\ Weighted(pre, Kernel, a.cell[1], a.cell[2], a.cell[3]) % Kernel.den # 0

\* the escape loop has ended for the point of every pixel: its condition is
\* false in the state it ended in, after at most max_iterations iterations
LoopStops ==
    \A p \in Cols \X Rows : ~LoopCond(LoopAt[p]) /\ LoopAt[p][3] <= max_iterations

\* outside the two parallel regions no task is unfinished
NoneUnfinished ==
    pc \notin {"main_single", "conv_single"} => \A t \in Tasks : task[t].st = "done"

\* a task of the current dispatch is created and has not finished
SomeUnfinished == \E t \in Tasks : task[t].st \in {"ready", "running"}

\* C13: mandelbrot_kernel stops after at most 2048 iterations for every
\* point; whenever a task is created and unfinished, the join of its dispatch
\* is eventually reached with every task of the dispatch finished;
\* convolution_2d eventually returns, after exactly nsteps passes; and no
\* task is unfinished once its stage has been left.
C13_EveryTaskRunsToCompletion ==
    /\ [](/\ LoopStops
          /\ NoneUnfinished
          /\ pc = "done" => step = nsteps /\ swaps = nsteps - 1)
    /\ SomeUnfinished ~> BarrierPassed
    /\ <>(pc = "done")

\* the program has ended after two passes of several tasks, every task done,
\* and the fractal stage covered a point that used the whole budget
C13_Witness ==
    /\ pc = "done" /\ step = nsteps /\ nsteps = 2
    /\ Cardinality(Tasks) >= 2
    /\ \A t \in Tasks : task[t].st = "done" /\ task[t].col = TileEnd(t, CurTaskSize)
    /\ \E p \in CoveredCols(task_size.main) \X Rows : LoopAt[p][3] = max_iterations

\* C14: in each dispatch the tasks are created by the one thread that runs
\* the single block: when its loop is at i, every index below i has been
\* created exactly once and no other index at all, so that exactly task_size
\* tasks, one per index 0 .. task_size-1, exist when the loop ends; and that
\* thread is past the dispatch only when all of them have finished.
C14_EachIndexCreatedOnce ==
    /\ pc = "main_single" => CurTaskSize = task_size.main
    /\ pc = "conv_single" => CurTaskSize = task_size.convolution_2d
    /\ DOMAIN created = 0..(CurTaskSize - 1)
    /\ \A t \in Tasks :
          /\ created[t] = IF t < create_i THEN 1 ELSE 0
          /\ task[t].st # "none" <=> created[t] = 1
    /\ pc \notin {"main_single", "conv_single"} =>
          /\ create_i = CurTaskSize
          /\ \A t \in Tasks : created[t] = 1 /\ task[t].st = "done"

\* in the second pass the creation loop has ended with three or more tasks
\* created, of which one is finished and one not yet started
C14_Witness ==
    /\ pc = "conv_single" /\ step = 1
    /\ create_i = CurTaskSize /\ CurTaskSize >= 3
    /\ \A t \in Tasks : created[t] = 1
    /\ \E t1, t2 \in Tasks : task[t1].st = "done" /\ task[t2].st = "ready"

\* C15: in the fractal dispatch task i stores to slot i of
\* pixels_inside_local only, exactly once (when it finishes) and never
\* before; the total is computed only with every task joined, and it is the
\* sum of the counts the tasks returned, whatever order they finished in.
C15_SlotPerTaskThenSum ==
    /\ \A t \in DOMAIN slot_wr :
          /\ \A n \in 1..Len(slot_wr[t]) : slot_wr[t][n] = t
          /\ Len(slot_wr[t]) =
                 IF pc = "main_single" /\ task[t].st # "done" THEN 0 ELSE 1
    /\ pc = "main_accumulate" => \A t \in Tasks : task[t].st = "done"
    /\ (pc = "conv_loop" /\ step = 0) =>
          /\ \A t \in Tasks : pixels_inside_local[t] = task[t].pixels_inside
          /\ pixels_inside = Sum([t \in Tasks |-> task[t].pixels_inside], Tasks)

\* the total has been computed from several tasks that counted different
\* numbers of pixels
C15_Witness ==
    /\ pc = "conv_loop" /\ step = 0
    /\ Cardinality(Tasks) >= 2
    /\ \E t1, t2 \in Tasks : task[t1].pixels_inside # task[t2].pixels_inside
    /\ pixels_inside > 0

\* the state of the escape loop of pixel (column i, row j) one iteration
\* before the loop ended
BeforeLast == [i \in Cols, j \in Rows |->
                  IF LoopAt[i, j][3] <= 1 THEN <<0, 0, 0>>
                  ELSE WhileLoop(<<0, 0, 0>>, dx(i), dy(j), LoopAt[i, j][3] - 1)]

\* |z| > 2, that is |z|^2 > 4
Beyond2(s) == s[1] * s[1] + s[2] * s[2] > (2 * Scale) * (2 * Scale)

\* the pixels the fractal tasks have computed so far
Computed ==
    UNION {{<<i, j>> : i \in {c \in Cols : TileFirst(t, CurTaskSize) <= c /\ c < task[t].col},
                       j \in Rows} :
           t \in {u \in Tasks : task[u].kind = "mandelbrot" /\ task[u].st # "ready"}}

\* C16: the escape iteration from z = 0 stops at the first iteration after
\* which |z| > 2, or after 2048 iterations: where it stopped |z| > 2 or the
\* budget is used up, and it made no iteration from a state with |z| > 2.
C16_StopsAtRadiusTwo ==
    \A p \in Computed :
        /\ Beyond2(LoopAt[p]) \/ LoopAt[p][3] = max_iterations
        /\ ~Beyond2(BeforeLast[p])

\* |z| > 4
Beyond4(s) == s[1] * s[1] + s[2] * s[2] > (4 * Scale) * (4 * Scale)

\* C16 (amended): the escape iteration from z = 0 stops at the first
\* iteration after which |z| > 4, or after 2048 iterations: where it stopped
\* |z| > 4 or the budget is used up, and it made no iteration from a state
\* with |z| > 4.
C16_StopsAtRadiusFour ==
    \A p \in Computed :
        /\ Beyond4(LoopAt[p]) \/ LoopAt[p][3] = max_iterations
        /\ LoopAt[p][3] <= max_iterations
        /\ ~Beyond4(BeforeLast[p])

\* the tasks have computed a point whose loop went on from a state with
\* 2 < |z| <= 4 and a point that used the whole budget without escaping
C16_Witness ==
    /\ \E p \in Computed :
          Beyond2(BeforeLast[p]) /\ ~Beyond4(BeforeLast[p]) /\ Beyond4(LoopAt[p])
    /\ \E p \in Computed :
          LoopAt[p][3] = max_iterations /\ ~Beyond2(LoopAt[p])

\* every access the tasks of the current dispatch have made
AllAccesses == UNION {WrittenBy(t) \cup ReadBy(t) : t \in Tasks}

\* C17: every Image access made by mandelbrot and by convolution_2d_helper,
\* for every task_size >= 1 and every task_num in 0 .. task_size-1, has
\* 0 <= channel < channels, 0 <= row < height and 0 <= column < width, reads
\* of the source and writes of the destination alike.
C17_AccessesInsideImage ==
    \A a \in AllAccesses :
        /\ a.buf \in {"image", "filtered_image"}
        /\ 0 <= a.cell[1] /\ a.cell[1] < channels
        /\ 0 <= a.cell[2] /\ a.cell[2] < Height
        /\ 0 <= a.cell[3] /\ a.cell[3] < Width

\* the task with the last index of a pass with a 3x3 kernel has finished:
\* it wrote the last column and its neighbourhoods left the image on the
\* right, at the top and at the bottom
C17_Witness ==
    /\ InConv /\ kernel_width = 3 /\ CurTaskSize >= 2
    /\ task[CurTaskSize - 1].st = "done"
    /\ \E a \in WrittenBy(CurTaskSize - 1) : a.cell[3] = Width - 1 /\ a.cell[2] = Height - 1
    /\ \E a \in ReadBy(CurTaskSize - 1) : a.cell[3] = Width - 1 /\ a.cell[2] = 0

\* the output of pass k of this call of convolution_2d
PassOutput(k) ==
    Passes(conv_in, k, kernel_width, sigma, task_size.convolution_2d)["filtered_image"]

\* a step inside convolution_2d that changes the caller's source image is
\* the assignment src = dst of a swap
SourceChangeIsSwap ==
    (pc \in ConvPcs /\ mem'["image"] # mem["image"]) =>
        /\ pc = "swap_src"
        /\ nsteps >= 2
        /\ mem'["image"] = mem["filtered_image"]

\* C18: with nsteps = 1 convolution_2d leaves the caller's source image as
\* it was; with nsteps >= 2 the source image is changed only by the
\* assignment src = dst of a swap and never by a step of a task, and when
\* convolution_2d returns it holds the output of pass nsteps - 1.
C18_SourceChangedOnlyBySwaps ==
    /\ [][SourceChangeIsSwap]_vars
    /\ [](pc = "done" =>
              mem["image"] = IF nsteps = 1 THEN conv_in["image"]
                             ELSE PassOutput(nsteps - 1))

\* convolution_2d has returned from two passes and the caller's source image
\* is neither the original input nor the final result
C18_Witness ==
    /\ pc = "done" /\ nsteps = 2 /\ swaps = 1
    /\ mem["image"] # conv_in["image"]
    /\ mem["image"] # mem["filtered_image"]
    /\ mem["image"] = PassOutput(1)
====
